---- MODULE Spec2Model ----
(***************************************************************************)
(* A model of torchchat's decoder cache engine (torchchat/model.py):       *)
(* KVCache, Attention, Transformer.setup_caches and Transformer.forward.   *)
(* Tensors are modelled by their shape and by symbolic entries: a buffer   *)
(* is a function  batch row -> sequence position -> entry, the head and    *)
(* head_dim axes being folded into the entry.                              *)
(***************************************************************************)
EXTENDS Integers, Sequences, FiniteSets, TLC

\* ------------------------------------------------------------------ bounds
\* number of decoder layers of the modelled configuration
NLayers == 2
\* largest batch size requested of setup_caches or passed to forward / update
MaxBatch == 2
\* largest number of tokens (and of positions) in one forward call
MaxTok == 2
\* number of calls made on one decoder
MaxCalls == 3
\* number of update calls made on one stand-alone KVCache
MaxUpdates == 2
\* the longest lookup key given to from_name, in characters
MaxKeyLen == 3
\* the most attention heads, and the largest head dimension, of a module
MaxHeads == 2
\* the longest wavelength given to apply_scaling
MaxWave == 9
\* the most layers of a configuration split over pipeline stages
MaxPipeLayers == 4
\* the most pipeline stages
MaxStages == 3

\* ------------------------------------------------------- program constants
\* the alignment setup_caches rounds the sequence length up to
CacheAlign == 8
\* max_batch_size / max_seq_length before any setup_caches
Unset == -1
\* the fill value of a freshly allocated cache (torch.zeros)
Zero == 0
\* an Attention that has no tp_degree attribute (distribute was never called)
NoDegree == 0

VARIABLES
    cfg,             \* TransformerArgs of the decoder (immutable)
    max_batch_size,  \* Transformer.max_batch_size
    max_seq_length,  \* Transformer.max_seq_length
    freqs_cis,       \* the rotary table buffer, or NoBuffer
    causal_mask,     \* the causal mask buffer, or NoMask
    kv_cache,        \* layer id -> that Attention's kv_cache (or None)
    nextId,          \* allocation counter: the identity of the next new buffer
    calls,           \* number of calls made so far
    last,            \* the last call: its arguments and its outcome
    req_batch,       \* history: the largest batch size asked of setup_caches
    req_seq,         \* history: the largest sequence length asked of it
    kvc,             \* a stand-alone KVCache object
    kv_calls,        \* number of update calls made on it
    kv_last,         \* its last update call: arguments and outcome
    kv_hist,         \* history: the arguments of its completed updates
    model_type,      \* the ModelType of the Model facade around the decoder
    _input_pos,      \* Transformer._input_pos (set by setup_input_pos), or NoPos
    arg,             \* the arguments of the configuration routine applied
    ret,             \* what it returned or raised, or NoReturn before it ran
    self_n_local_heads, \* Attention.n_local_heads (the same in every layer)
    tp_degree,       \* layer id -> that Attention's tp_degree, or NoDegree
    kv_heads,        \* layer id -> the head count of that Attention's kv_cache
    discarded        \* history: the number of the last call that replaced
                     \* caches holding written entries, 0 when there is none

decoderVars == <<cfg, max_batch_size, max_seq_length, freqs_cis, causal_mask,
                 kv_cache, nextId, calls, last, req_batch, req_seq>>
cacheVars == <<kvc, kv_calls, kv_last, kv_hist>>
facadeVars == <<model_type, _input_pos>>
callVars == <<arg, ret>>
shardVars == <<self_n_local_heads, tp_degree, kv_heads>>
vars == <<decoderVars, cacheVars, facadeVars, callVars, shardVars, discarded>>

\* ------------------------------------------------------------------ helpers
Max(a, b) == IF a >= b THEN a ELSE b

\* torchchat.utils.build_utils.find_multiple: the smallest multiple of k >= n
find_multiple(n, k) == IF n % k = 0 THEN n ELSE n + k - (n % k)

\* the layer ids a single-stage decoder owns, in ModuleDict order
Layers == 0 .. (NLayers - 1)

\* apply_scaling's required keys
RequiredKeys == {"factor", "low_freq_factor", "high_freq_factor",
                 "original_max_position_embeddings"}

\* rope_scaling = None
NoScaling == {"None"}

\* the rope_scaling dictionaries of the modelled configurations, by their keys
RopeScalings == {NoScaling, RequiredKeys \ {"factor"}}

\* block_size of the modelled configurations
BlockSizes == {CacheAlign \div 2}

\* hf_precompute_freqs_cis takes no rope_scaling, so the HF configurations
\* are the ones without it
Configs == {c \in [block_size : BlockSizes, use_hf_rope : BOOLEAN,
                   rope_scaling : RopeScalings] :
               c.use_hf_rope => c.rope_scaling = NoScaling}

\* an attribute that was never assigned / a kv_cache that is None
NoBuffer == [id |-> 0, rows |-> 0]
None == [id |-> 0, k_cache |-> <<>>, v_cache |-> <<>>]

\* ------------------------------------------------------------------ tensors
\* a [batch, seq] tensor of symbolic entries
Batch(t) == Len(t)
SeqLen(t) == IF Len(t) = 0 THEN 0 ELSE Len(t[1])

\* a buffer's capacities
BufBatch(buf) == Len(buf)
BufSeq(buf) == IF Len(buf) = 0 THEN 0 ELSE Cardinality(DOMAIN buf[1])

\* mutant of Zeros: the new buffer takes over what the first layer's key
\* buffer holds, as far as it fits
Zeros_Retained(B, S) ==
    [r \in 1 .. B |-> [p \in 0 .. (S - 1) |->
        IF /\ kv_cache[0].k_cache # <<>>
           /\ r <= BufBatch(kv_cache[0].k_cache)
           /\ p < BufSeq(kv_cache[0].k_cache)
        THEN kv_cache[0].k_cache[r][p]
        ELSE Zero]]

\* mutant of Zeros: the buffer is allocated for a single batch row
Zeros_SingleRow(B, S) == [r \in 1 .. 1 |-> [p \in 0 .. (S - 1) |-> Zero]]

\* torch.zeros(cache_shape)
Zeros(B, S) == [r \in 1 .. B |-> [p \in 0 .. (S - 1) |-> Zero]]

\* mutant of KVCacheInit: every layer is handed the cache object that was
\* allocated first
KVCacheInit_Shared(id, B, S) ==
    [id |-> nextId, k_cache |-> Zeros(B, S), v_cache |-> Zeros(B, S)]

\* KVCache.__init__
KVCacheInit(id, B, S) ==
    [id |-> id, k_cache |-> Zeros(B, S), v_cache |-> Zeros(B, S)]

\* mutant of Tril: the mask is left all ones
Tril_AllOnes(n) == [i \in 0 .. (n - 1) |-> [j \in 0 .. (n - 1) |-> TRUE]]

\* torch.tril(torch.ones(n, n, dtype=bool))
Tril(n) == [i \in 0 .. (n - 1) |-> [j \in 0 .. (n - 1) |-> j <= i]]

\* ----------------------------------------------------------------- KVCache
\* mutant of PutFrom: a position that already holds an entry keeps it
RECURSIVE PutFrom_KeepFirst(_, _, _, _)
PutFrom_KeepFirst(buf, input_pos, val, i) ==
    IF i > Len(input_pos) THEN buf
    ELSE PutFrom_KeepFirst(
             [r \in 1 .. BufBatch(buf) |->
                 [buf[r] EXCEPT ![input_pos[i]] =
                     IF buf[r][input_pos[i]] # Zero THEN buf[r][input_pos[i]]
                     ELSE val[IF Batch(val) = 1 THEN 1 ELSE r]
                             [IF SeqLen(val) = 1 THEN 1 ELSE i]]],
             input_pos, val, i + 1)

\* the writes of index_put_ from index i on, in index order: row r of the
\* buffer takes, at position input_pos[i], the entry of val broadcast to the
\* indexed shape
RECURSIVE PutFrom(_, _, _, _)
PutFrom(buf, input_pos, val, i) ==
    IF i > Len(input_pos) THEN buf
    ELSE PutFrom([r \in 1 .. BufBatch(buf) |->
                     [buf[r] EXCEPT ![input_pos[i]] =
                         val[IF Batch(val) = 1 THEN 1 ELSE r]
                            [IF SeqLen(val) = 1 THEN 1 ELSE i]]],
                 input_pos, val, i + 1)

\* mutant of IndexPut: the values are put into a new zero buffer, not in place
IndexPut_OutOfPlace(buf, input_pos, val) ==
    IF \/ \E i \in 1 .. Len(input_pos) :
             input_pos[i] \notin 0 .. (BufSeq(buf) - 1)
       \/ Batch(val) \notin {1, BufBatch(buf)}
       \/ SeqLen(val) \notin {1, Len(input_pos)}
    THEN [raised |-> TRUE, buf |-> buf]
    ELSE [raised |-> FALSE,
          buf |-> PutFrom(Zeros(BufBatch(buf), BufSeq(buf)), input_pos, val, 1)]

\* mutant of IndexPut: the positions are taken relative to the call, 0, 1, ...
IndexPut_Relative(buf, input_pos, val) ==
    LET rel == [i \in 1 .. Len(input_pos) |-> i - 1]
    IN  IF \/ \E i \in 1 .. Len(input_pos) :
                 input_pos[i] \notin 0 .. (BufSeq(buf) - 1)
           \/ Batch(val) \notin {1, BufBatch(buf)}
           \/ SeqLen(val) \notin {1, Len(input_pos)}
        THEN [raised |-> TRUE, buf |-> buf]
        ELSE [raised |-> FALSE, buf |-> PutFrom(buf, rel, val, 1)]

\* index_put_(buf, [None, None, input_pos], val): val is broadcast to the
\* indexed shape [B, len(input_pos)]; an index outside the buffer or a shape
\* that does not broadcast raises before anything is written.
IndexPut(buf, input_pos, val) ==
    LET B == BufBatch(buf)
        S == BufSeq(buf)
        n == Len(input_pos)
        inRange == \A i \in 1 .. n : input_pos[i] \in 0 .. (S - 1)
        bcast == Batch(val) \in {1, B} /\ SeqLen(val) \in {1, n}
    IN  IF ~inRange \/ ~bcast
        THEN [raised |-> TRUE, buf |-> buf]
        ELSE [raised |-> FALSE, buf |-> PutFrom(buf, input_pos, val, 1)]

\* mutant of update: no assert on the number of positions
update_NoAssert(c, input_pos, k_val, v_val) ==
    LET k == IndexPut(c.k_cache, input_pos, k_val)
        v == IndexPut(c.v_cache, input_pos, v_val)
    IN  IF k.raised \/ v.raised
        THEN [raised |-> TRUE, cache |-> c, k_out |-> <<>>, v_out |-> <<>>]
        ELSE [raised |-> FALSE,
              cache |-> [c EXCEPT !.k_cache = k.buf, !.v_cache = v.buf],
              k_out |-> k.buf, v_out |-> v.buf]

\* mutant of update: what is returned are the buffers as they were before
\* the write
update_Stale(c, input_pos, k_val, v_val) ==
    LET k == IndexPut(c.k_cache, input_pos, k_val)
        v == IndexPut(c.v_cache, input_pos, v_val)
    IN  IF Len(input_pos) # SeqLen(k_val) \/ k.raised \/ v.raised
        THEN [raised |-> TRUE, cache |-> c, k_out |-> <<>>, v_out |-> <<>>]
        ELSE [raised |-> FALSE,
              cache |-> [c EXCEPT !.k_cache = k.buf, !.v_cache = v.buf],
              k_out |-> c.k_cache, v_out |-> c.v_cache]

\* KVCache.update: the assert, then the write of k_cache, then of v_cache;
\* what it returns are the two buffers themselves.
update(c, input_pos, k_val, v_val) ==
    IF Len(input_pos) # SeqLen(k_val)
    THEN [raised |-> TRUE, cache |-> c, k_out |-> <<>>, v_out |-> <<>>]
    ELSE LET k == IndexPut(c.k_cache, input_pos, k_val)
             c1 == [c EXCEPT !.k_cache = k.buf]
             v == IndexPut(c.v_cache, input_pos, v_val)
         IN  IF k.raised
             THEN [raised |-> TRUE, cache |-> c, k_out |-> <<>>, v_out |-> <<>>]
             ELSE IF v.raised
             THEN [raised |-> TRUE, cache |-> c1, k_out |-> <<>>, v_out |-> <<>>]
             ELSE [raised |-> FALSE, cache |-> [c1 EXCEPT !.v_cache = v.buf],
                   k_out |-> k.buf, v_out |-> v.buf]

\* --------------------------------------------------------------- Attention
\* the entries of wk(x) after the rotary rotation and of wv(x) in layer l,
\* for the input of call number tok, batch row r, sequence index i: symbolic,
\* pairwise distinct and never the fill value
KEntry(l, tok, r, i) == ((l + 1) * 1000) + (tok * 100) + (r * 10) + i
VEntry(l, tok, r, i) == 0 - KEntry(l, tok, r, i)

\* the sequence length of q and k after apply_rotary_emb on x of seqlen tokens
\* with a table slice of n rows, 0 when it raises: the native rotation views
\* the slice as [1, seqlen, 1, -1, 2]; the HF rotation broadcasts x * cos
RotarySeq(hf, seqlen, n) ==
    IF hf
    THEN IF seqlen = n \/ seqlen = 1 \/ n = 1 THEN Max(seqlen, n) ELSE 0
    ELSE IF seqlen = n THEN n ELSE 0

\* scaled_dot_product_attention, y.view(bsz, seqlen, -1) and wo(y) complete
\* only when the keys have the batch of q, the mask has the keys' length and
\* the merged heads have width dim
SdpaAndProjectOk(bsz, seqlen, qseq, kbatch, kvlen, maskWidth) ==
    kbatch = bsz /\ qseq = seqlen /\ maskWidth = kvlen

\* Attention.forward of layer l on kv_cache c.  inp: bsz, seqlen, tok,
\* input_pos, maskWidth, hf.  Gives the cache afterwards and the K, V the
\* attention product was computed with.
AttentionForward(l, c, inp) ==
    LET n == Len(inp.input_pos)
        qseq == RotarySeq(inp.hf, inp.seqlen, n)
        k_val == [r \in 1 .. inp.bsz |-> [i \in 1 .. qseq |->
                     KEntry(l, inp.tok, r, i)]]
        v_val == [r \in 1 .. inp.bsz |-> [i \in 1 .. inp.seqlen |->
                     VEntry(l, inp.tok, r, i)]]
        u == IF c # None
             THEN update(c, inp.input_pos, k_val, v_val)
             ELSE [raised |-> FALSE, cache |-> c,
                   k_out |-> k_val, v_out |-> v_val]
        fail(cc) == [raised |-> TRUE, cache |-> cc, k |-> <<>>, v |-> <<>>]
    IN  IF qseq = 0 THEN fail(c)
        ELSE IF u.raised THEN fail(u.cache)
        ELSE IF ~SdpaAndProjectOk(inp.bsz, inp.seqlen, qseq, Batch(u.k_out),
                                  BufSeq(u.k_out), inp.maskWidth)
        THEN fail(u.cache)
        ELSE [raised |-> FALSE, cache |-> u.cache,
              k |-> u.k_out, v |-> u.v_out]

\* ------------------------------------------------------------- Transformer
NoMask == [id |-> 0, m |-> <<>>]
NoKV == [k |-> <<>>, v |-> <<>>]
NoSeen == [l \in Layers |-> NoKV]

\* the loop over self.layers of Transformer.forward, from layer l on
RECURSIVE RunLayers(_, _, _, _)
RunLayers(l, caches, seen, inp) ==
    IF l = NLayers
    THEN [raised |-> FALSE, caches |-> caches, seen |-> seen]
    ELSE LET a == AttentionForward(l, caches[l], inp)
             caches1 == [caches EXCEPT ![l] = a.cache]
         IN  IF a.raised
             THEN [raised |-> TRUE, caches |-> caches1, seen |-> seen]
             ELSE RunLayers(l + 1, caches1,
                            [seen EXCEPT ![l] = [k |-> a.k, v |-> a.v]], inp)

\* precompute_freqs_cis raises (in apply_scaling) when a rope_scaling
\* dictionary lacks a required key; hf_precompute_freqs_cis ignores it
PrecomputeRaises(c) ==
    /\ ~c.use_hf_rope
    /\ c.rope_scaling # NoScaling
    /\ ~(RequiredKeys \subseteq c.rope_scaling)

\* Transformer.forward after its assert: the mask and table slices, then the
\* layers
ForwardBody(bsz, seqlen, tok, input_pos) ==
    LET n == Len(input_pos)
        side == BufSeq(<<causal_mask.m>>)
    IN  IF \/ \E i \in 1 .. n : input_pos[i] >= side
           \/ \E i \in 1 .. n : input_pos[i] >= freqs_cis.rows
        THEN [raised |-> TRUE, caches |-> kv_cache, seen |-> NoSeen]
        ELSE RunLayers(0, kv_cache, NoSeen,
                       [bsz |-> bsz, seqlen |-> seqlen, tok |-> tok,
                        input_pos |-> input_pos, maskWidth |-> side,
                        hf |-> cfg.use_hf_rope])

\* mutant of TransformerForward: without the buffers the call returns its
\* input instead of failing
TransformerForward_Unchecked(bsz, seqlen, tok, input_pos) ==
    IF freqs_cis = NoBuffer
    THEN [raised |-> FALSE, caches |-> kv_cache, seen |-> NoSeen]
    ELSE ForwardBody(bsz, seqlen, tok, input_pos)

\* Transformer.forward(x, input_pos) with x of bsz rows and seqlen tokens:
\* reading self.freqs_cis fails when setup_caches never registered it
TransformerForward(bsz, seqlen, tok, input_pos) ==
    IF freqs_cis = NoBuffer
    THEN [raised |-> TRUE, caches |-> kv_cache, seen |-> NoSeen]
    ELSE ForwardBody(bsz, seqlen, tok, input_pos)

\* causal_mask[None, None, input_pos]: for each position the key positions
\* its row lets attention read
MaskRows(input_pos) ==
    [i \in 1 .. Len(input_pos) |->
        {j \in DOMAIN causal_mask.m : causal_mask.m[input_pos[i]][j]}]

\* ----------------------------------------------------------------- actions
Call(op, status, b, s, pos, seen) ==
    [op |-> op, status |-> status, b |-> b, s |-> s, pos |-> pos,
     seen |-> seen]

\* the sequence lengths requested of setup_caches: around the alignment
SeqRequests == {CacheAlign - 1, CacheAlign, CacheAlign + 1}

\* a decoder after Transformer.__init__
InitDecoder ==
    /\ max_batch_size = Unset
    /\ max_seq_length = Unset
    /\ freqs_cis = NoBuffer
    /\ causal_mask = NoMask
    /\ kv_cache = [l \in Layers |-> None]
    /\ nextId = 1
    /\ calls = 0
    /\ last = Call("init", "ok", 0, 0, <<>>, NoSeen)
    /\ req_batch = Unset
    /\ req_seq = Unset

\* the update calls of the stand-alone cache
Update(status, pos, k, v, k_out, v_out) ==
    [status |-> status, pos |-> pos, k |-> k, v |-> v,
     k_out |-> k_out, v_out |-> v_out]

\* no stored positions, no routine applied, nothing returned
NoPos == <<>>
NoArg == [op |-> "none"]
NoReturn == [status |-> "none"]

\* the text-only facade of a decoder on which setup_input_pos was never called
InitFacade ==
    /\ model_type = "text_only"
    /\ _input_pos = NoPos

\* no configuration routine applied
InitCall ==
    /\ arg = NoArg
    /\ ret = NoReturn

\* the Attention instances after __init__, for a configuration of h local
\* heads: no tp_degree attribute, kv_cache None
InitAttention(h) ==
    /\ self_n_local_heads = h
    /\ tp_degree = [l \in Layers |-> NoDegree]
    /\ kv_heads = [l \in Layers |-> 0]
    /\ discarded = 0

InitCache(B, S) ==
    /\ kvc = KVCacheInit(1, B, S)
    /\ kv_calls = 0
    /\ kv_last = Update("init", <<>>, <<>>, <<>>, <<>>, <<>>)
    /\ kv_hist = <<>>

Init ==
    /\ cfg \in Configs
    /\ InitDecoder
    /\ InitCache(1, 1)
    /\ InitFacade
    /\ InitCall
    /\ InitAttention(MaxHeads)

\* mutant of AlreadyCovered: strict comparisons
AlreadyCovered_Strict(b, s) == max_seq_length > s /\ max_batch_size > b

\* the test setup_caches returns early on
AlreadyCovered(b, s) == max_seq_length >= s /\ max_batch_size >= b

\* the head count Attention.setup_cache of layer l gives the new KVCache:
\* n_local_heads, divided by tp_degree when distribute has set it
SetupCacheHeads(l) ==
    IF tp_degree[l] # NoDegree
    THEN self_n_local_heads \div tp_degree[l]
    ELSE self_n_local_heads

\* a kv_cache that holds an entry some forward call wrote
Written(c) ==
    /\ c # None
    /\ \E r \in 1 .. BufBatch(c.k_cache), p \in 0 .. (BufSeq(c.k_cache) - 1) :
          c.k_cache[r][p] # Zero \/ c.v_cache[r][p] # Zero

\* Transformer.setup_caches(b, s)
setup_caches(b, s) ==
    /\ calls < MaxCalls
    /\ calls' = calls + 1
    /\ req_batch' = Max(req_batch, b)
    /\ req_seq' = Max(req_seq, s)
    /\ UNCHANGED <<cfg, cacheVars, facadeVars, callVars,
                   self_n_local_heads, tp_degree>>
    /\ IF AlreadyCovered(b, s)
       THEN /\ UNCHANGED <<max_batch_size, max_seq_length, freqs_cis,
                           causal_mask, kv_cache, nextId, kv_heads, discarded>>
            /\ last' = Call("setup_caches", "ok", b, s, <<>>, NoSeen)
       ELSE LET S == find_multiple(s, CacheAlign)
            IN  /\ max_seq_length' = S
                /\ max_batch_size' = b
                /\ kv_cache' = [l \in Layers |-> KVCacheInit(nextId + l, b, S)]
                /\ kv_heads' = [l \in Layers |-> SetupCacheHeads(l)]
                /\ discarded' = IF \E l \in Layers : Written(kv_cache[l])
                                THEN calls + 1
                                ELSE discarded
                /\ IF PrecomputeRaises(cfg)
                   THEN /\ UNCHANGED <<freqs_cis, causal_mask>>
                        /\ nextId' = nextId + NLayers
                        /\ last' = Call("setup_caches", "raise", b, s, <<>>,
                                        NoSeen)
                   ELSE /\ freqs_cis' = [id |-> nextId + NLayers,
                                         rows |-> cfg.block_size * 2]
                        /\ causal_mask' = [id |-> nextId + NLayers + 1,
                                           m |-> Tril(S)]
                        /\ nextId' = nextId + NLayers + 2
                        /\ last' = Call("setup_caches", "ok", b, s, <<>>,
                                        NoSeen)

\* Transformer.forward(x, input_pos), x of bsz rows and seqlen tokens,
\* input_pos the n positions start, start + 1, ...
forward(bsz, seqlen, start, n) ==
    /\ calls < MaxCalls
    /\ \E f \in {TransformerForward(bsz, seqlen, calls + 1,
                                    [i \in 1 .. n |-> start + i - 1])} :
          /\ calls' = calls + 1
          /\ kv_cache' = f.caches
          /\ last' = IF f.raised
                     THEN Call("forward", "raise", 0, 0, <<>>, NoSeen)
                     ELSE Call("forward", "ok", bsz, seqlen,
                               [i \in 1 .. n |-> start + i - 1], f.seen)
          /\ UNCHANGED <<cfg, max_batch_size, max_seq_length, freqs_cis,
                         causal_mask, nextId, req_batch, req_seq, cacheVars,
                         facadeVars, callVars, shardVars, discarded>>

\* the first positions a forward call is tried at: the low positions and the
\* first position past the capacity
Starts == (0 .. MaxTok) \cup ({max_seq_length} \cap Nat)

Next ==
    \/ \E b \in 1 .. MaxBatch, s \in SeqRequests : setup_caches(b, s)
    \/ \E bsz \in 1 .. MaxBatch, seqlen \in 1 .. MaxTok,
          start \in Starts, n \in 1 .. MaxTok :
          forward(bsz, seqlen, start, n)

Spec == Init /\ [][Next]_vars

\* ----------------------------------------------- the stand-alone KVCache
\* the capacity of the stand-alone cache: one position more than a call writes
KVCap == MaxTok + 1

\* the ascending sequences of at most MaxTok distinct positions from 0 .. KVCap
\* (KVCap itself lies outside the cache)
RECURSIVE Ascending(_, _)
Ascending(lo, len) ==
    IF len = 0 THEN {<<>>}
    ELSE UNION {{<<p>> \o rest : rest \in Ascending(p + 1, len - 1)} :
                   p \in lo .. KVCap}

PositionSeqs == UNION {Ascending(0, len) : len \in 1 .. MaxTok}

\* the k and v tensors of update call number tok: kb rows, klen positions
KTensor(tok, kb, klen) ==
    [r \in 1 .. kb |-> [i \in 1 .. klen |-> KEntry(0, tok, r, i)]]
VTensor(tok, kb, klen) ==
    [r \in 1 .. kb |-> [i \in 1 .. klen |-> VEntry(0, tok, r, i)]]

\* kvc.update(input_pos, k_val, v_val) with k_val, v_val of kb rows and
\* klen positions
KVUpdate(input_pos, kb, klen) ==
    /\ kv_calls < MaxUpdates
    /\ \E u \in {update(kvc, input_pos, KTensor(kv_calls + 1, kb, klen),
                         VTensor(kv_calls + 1, kb, klen))} :
          /\ kv_calls' = kv_calls + 1
          /\ kvc' = u.cache
          /\ kv_last' = Update(IF u.raised THEN "raise" ELSE "ok", input_pos,
                               KTensor(kv_calls + 1, kb, klen),
                               VTensor(kv_calls + 1, kb, klen),
                               u.k_out, u.v_out)
          /\ kv_hist' = IF u.raised THEN kv_hist
                        ELSE Append(kv_hist,
                                    [pos |-> input_pos,
                                     k |-> KTensor(kv_calls + 1, kb, klen),
                                     v |-> VTensor(kv_calls + 1, kb, klen)])
          /\ UNCHANGED <<decoderVars, facadeVars, callVars, shardVars,
                         discarded>>

InitKV ==
    /\ cfg = CHOOSE c \in Configs : TRUE
    /\ InitDecoder
    /\ \E B \in 1 .. MaxBatch : InitCache(B, KVCap)
    /\ InitFacade
    /\ InitCall
    /\ InitAttention(MaxHeads)

NextKV ==
    \E input_pos \in PositionSeqs, kb \in 1 .. MaxBatch, klen \in 1 .. MaxTok :
        KVUpdate(input_pos, kb, klen)

SpecKV == InitKV /\ [][NextKV]_vars

\* ------------------------------------------- configuration and loading
\* The routines below read no decoder state. Each behaviour applies one of them
\* to one input: arg records the routine and its input, ret what it returned.
Returned(value) == [status |-> "ok", value |-> value]
Raised(error) == [status |-> "raise", error |-> error]

\* the values of the ModelType enumeration
ModelTypes == {"text_only", "llama3_1", "flamingo", "llava"}

\* tags that are no member of ModelType
OtherTags == {"unknown", "text"}

\* a ModelRecipe: modules maps each module name to its builder
ModelRecipe(type, modules, fusion_class) ==
    [model_type |-> type, modules |-> modules, fusion_class |-> fusion_class]

text_only ==
    ModelRecipe("text_only", [n \in {"text"} |-> "Transformer"], "identity")

llama3_1 ==
    ModelRecipe("llama3_1", [n \in {"text"} |-> "llama3_1_builder"],
                "identity")

flamingo ==
    ModelRecipe("flamingo",
                [n \in {"encoder", "decoder"} |->
                    IF n = "encoder" THEN "flamingo_vision_encoder"
                    ELSE "flamingo_decoder"],
                "DeepFusionModel")

llava ==
    ModelRecipe("llava",
                [n \in {"encoder", "decoder"} |->
                    IF n = "encoder" THEN "clip_vision_encoder"
                    ELSE "Transformer"],
                "ConcateFusion")

\* mutant of get_recipe: the Llava case returns the Flamingo recipe
get_recipe_WrongCase(type) ==
    CASE type = "text_only" -> Returned(text_only)
      [] type = "flamingo" -> Returned(flamingo)
      [] type = "llama3_1" -> Returned(llama3_1)
      [] type = "llava" -> Returned(flamingo)
      [] OTHER -> Raised("ValueError")

\* ModelRecipe.get_recipe(model_type)
get_recipe(type) ==
    CASE type = "text_only" -> Returned(text_only)
      [] type = "flamingo" -> Returned(flamingo)
      [] type = "llama3_1" -> Returned(llama3_1)
      [] type = "llava" -> Returned(llava)
      [] OTHER -> Raised("ValueError")

\* a routine is applied only once in a behaviour
Idle == ret = NoReturn

\* the frame of the configuration routines
ConfigFrame ==
    UNCHANGED <<decoderVars, cacheVars, facadeVars, shardVars, discarded>>

GetRecipe(type) ==
    /\ Idle
    /\ arg' = [op |-> "get_recipe", model_type |-> type]
    /\ ret' = get_recipe(type)
    /\ ConfigFrame

\* the sub-module names a configuration may carry, and their parameter sets
ModuleNames == {"text", "encoder", "decoder", "extra"}
ParamSets == {"params_a", "params_b"}
TransformerArgSets ==
    UNION {[names -> ParamSets] : names \in SUBSET ModuleNames}

\* ModelArgs(transformer_args, model_type, use_tiktoken): _sanity_check
\* asserts the type
ModelArgs(transformer_args, type, use_tiktoken) ==
    IF type \notin ModelTypes THEN Raised("AssertionError")
    ELSE Returned([model_type |-> type, transformer_args |-> transformer_args,
                   use_tiktoken |-> use_tiktoken])

\* what build_model makes of module name with the recipe's builder
BuildModule(recipe, config, name) ==
    [builder |-> recipe.modules[name], params |-> config.transformer_args[name]]

\* mutant of build_model: modules missing from the configuration are skipped
build_model_SkipMissing(config) ==
    LET r == get_recipe(config.model_type)
    IN  IF r.status = "raise" THEN r
        ELSE Returned([fusion_class |-> r.value.fusion_class,
                       modules |->
                          [n \in DOMAIN r.value.modules
                                     \cap DOMAIN config.transformer_args
                              |-> BuildModule(r.value, config, n)]])

\* Model.build_model for self.config = config: the fusion class applied to
\* the modules built for the recipe's names; config.transformer_args[name]
\* raises KeyError for a name the configuration lacks
build_model(config) ==
    LET r == get_recipe(config.model_type)
    IN  IF r.status = "raise" THEN r
        ELSE IF \E n \in DOMAIN r.value.modules :
                    n \notin DOMAIN config.transformer_args
        THEN Raised("KeyError")
        ELSE Returned([fusion_class |-> r.value.fusion_class,
                       modules |-> [n \in DOMAIN r.value.modules
                                       |-> BuildModule(r.value, config, n)]])

\* Model.from_model_args(ModelArgs(transformer_args, type))
BuildModel(transformer_args, type) ==
    /\ Idle
    /\ arg' = [op |-> "build_model", model_type |-> type,
               transformer_args |-> transformer_args]
    /\ ret' = LET c == ModelArgs(transformer_args, type, FALSE)
              IN  IF c.status = "raise" THEN c ELSE build_model(c.value)
    /\ ConfigFrame

\* JSON null, which json.loads gives back as None
JsonNull == "<null>"

\* the top-level keys of a params document besides model_type, and the
\* documents: model_type absent, null, a ModelType value or another string
ParamKeys == {"text", "encoder", "decoder", "use_tiktoken"}
ParamValue(k) == IF k = "use_tiktoken" THEN TRUE ELSE "params_a"
TypeNames == ModelTypes \cup OtherTags \cup {JsonNull}
Documents ==
    LET plain == {[k \in keys |-> ParamValue(k)] : keys \in SUBSET ParamKeys}
    IN  plain \cup
        {[k \in DOMAIN d \cup {"model_type"} |->
             IF k = "model_type" THEN name ELSE d[k]] :
           d \in plain, name \in TypeNames}

\* dict.get(key, default)
Get(d, key, default) == IF key \in DOMAIN d THEN d[key] ELSE default

\* mutant of from_params: model_type stays among the sub-modules
from_params_KeepsType(loaded_params) ==
    LET model_type_name == Get(loaded_params, "model_type", JsonNull)
        use_tiktoken == Get(loaded_params, "use_tiktoken", FALSE)
    IN  IF model_type_name = JsonNull
        THEN ModelArgs([n \in {"text"} |-> loaded_params], "text_only",
                       use_tiktoken)
        ELSE IF model_type_name \notin ModelTypes THEN Raised("ValueError")
        ELSE ModelArgs(loaded_params, model_type_name, use_tiktoken)

\* ModelArgs.from_params on the document loaded_params
from_params(loaded_params) ==
    LET model_type_name == Get(loaded_params, "model_type", JsonNull)
        use_tiktoken == Get(loaded_params, "use_tiktoken", FALSE)
    IN  IF model_type_name = JsonNull
        THEN ModelArgs([n \in {"text"} |-> loaded_params], "text_only",
                       use_tiktoken)
        ELSE IF model_type_name \notin ModelTypes THEN Raised("ValueError")
        ELSE ModelArgs([k \in DOMAIN loaded_params \ {"model_type"} |->
                           loaded_params[k]],
                       model_type_name, use_tiktoken)

FromParams(doc) ==
    /\ Idle
    /\ arg' = [op |-> "from_params", doc |-> doc]
    /\ ret' = from_params(doc)
    /\ ConfigFrame

\* strings are sequences of characters; str.upper maps each character
Chars == {"7", "B", "b", "M"}
UpperChar(ch) == IF ch = "b" THEN "B" ELSE ch
Upper(s) == [i \in 1 .. Len(s) |-> UpperChar(s[i])]

\* sub in s (substring test)
Contains(sub, s) ==
    \E i \in 0 .. (Len(s) - Len(sub)) : SubSeq(s, i + 1, i + Len(sub)) = sub

\* the lookup keys, and the sets of config names found in the directory
Keys == UNION {[1 .. n -> Chars] : n \in 1 .. MaxKeyLen}
KnownSets ==
    {{<<"7", "B">>, <<"M", "7", "B">>},
     {<<"7", "B">>, <<"B", "7">>},
     {<<"7">>, <<"B">>, <<"7", "B">>}}

\* the names of greatest length among config
Longest(config) == {c \in config : \A d \in config : Len(d) <= Len(c)}

\* mutant of from_name: the sort is ascending, the shortest match is taken
from_name_Shortest(known_model_params, name) ==
    IF name \in known_model_params THEN Returned(name)
    ELSE LET config == {c \in known_model_params :
                           Contains(c, Upper(name)) \/ Contains(c, name)}
             first == {c \in config : \A d \in config : Len(c) <= Len(d)}
         IN  IF config = {} THEN Raised("ValueError")
             ELSE IF Cardinality(first) > 1 THEN Raised("AssertionError")
             ELSE Returned(CHOOSE c \in first : TRUE)

\* ModelArgs.from_name(name) with the config files known_model_params: the
\* name of the config whose file is then loaded
from_name(known_model_params, name) ==
    IF name \in known_model_params THEN Returned(name)
    ELSE LET config == {c \in known_model_params :
                           Contains(c, Upper(name)) \/ Contains(c, name)}
         IN  IF config = {} THEN Raised("ValueError")
             ELSE IF Cardinality(Longest(config)) > 1
             THEN Raised("AssertionError")
             ELSE Returned(CHOOSE c \in Longest(config) : TRUE)

FromName(known, name) ==
    /\ Idle
    /\ arg' = [op |-> "from_name", known |-> known, name |-> name]
    /\ ret' = from_name(known, name)
    /\ ConfigFrame

\* a state_dict key: prefix + name
Key(prefix, name) == <<prefix, name>>

\* a weight matrix of the given number of rows, each row told by its index
Weight(rows) == [i \in 1 .. rows |-> [row |-> i]]

\* dict.pop(key) and dict[key] = value
Pop(d, key) == [k \in DOMAIN d \ {key} |-> d[k]]
Put(d, key, value) ==
    [k \in DOMAIN d \cup {key} |-> IF k = key THEN value ELSE d[k]]

\* torch.split(t, (a, b, c), dim=0): fails unless the sizes sum to the rows
Split(t, a, b, c) ==
    IF a + b + c # Len(t) THEN Raised("RuntimeError")
    ELSE Returned(<<SubSeq(t, 1, a), SubSeq(t, a + 1, a + b),
                    SubSeq(t, a + b + 1, a + b + c)>>)

\* mutant of load_hook: the key and value ranges are taken in the other order
load_hook_SwapsKV(state_dict, prefix, n_heads, n_local_heads, head_dim) ==
    IF Key(prefix, "wqkv.weight") \notin DOMAIN state_dict
    THEN Returned(state_dict)
    ELSE LET wqkv == state_dict[Key(prefix, "wqkv.weight")]
             popped == Pop(state_dict, Key(prefix, "wqkv.weight"))
             q_size == n_heads * head_dim
             kv_size == n_local_heads * head_dim
             parts == Split(wqkv, q_size, kv_size, kv_size)
         IN  IF parts.status = "raise"
             THEN [status |-> "raise", value |-> popped]
             ELSE Returned(Put(Put(Put(popped, Key(prefix, "wq.weight"),
                                       parts.value[1]),
                                   Key(prefix, "wk.weight"), parts.value[3]),
                               Key(prefix, "wv.weight"), parts.value[2]))

\* Attention.load_hook(state_dict, prefix) of a module with the given head
\* counts: the state_dict as the hook leaves it
load_hook(state_dict, prefix, n_heads, n_local_heads, head_dim) ==
    IF Key(prefix, "wqkv.weight") \notin DOMAIN state_dict
    THEN Returned(state_dict)
    ELSE LET wqkv == state_dict[Key(prefix, "wqkv.weight")]
             popped == Pop(state_dict, Key(prefix, "wqkv.weight"))
             q_size == n_heads * head_dim
             kv_size == n_local_heads * head_dim
             parts == Split(wqkv, q_size, kv_size, kv_size)
         IN  IF parts.status = "raise"
             THEN [status |-> "raise", value |-> popped]
             ELSE Returned(Put(Put(Put(popped, Key(prefix, "wq.weight"),
                                       parts.value[1]),
                                   Key(prefix, "wk.weight"), parts.value[2]),
                               Key(prefix, "wv.weight"), parts.value[3]))

\* the state dicts given to the hook of layer 0: any of its fused weight (of
\* rows rows), its output weight and the fused weight of layer 1
StateDicts(rows) ==
    LET all == [k \in {Key("layers.0.", "wqkv.weight"),
                       Key("layers.0.", "wo.weight"),
                       Key("layers.1.", "wqkv.weight")} |-> Weight(rows)]
    IN  {[k \in keys |-> all[k]] : keys \in SUBSET DOMAIN all}

LoadHook(state_dict, n_heads, n_local_heads, head_dim) ==
    /\ Idle
    /\ arg' = [op |-> "load_hook", state_dict |-> state_dict,
               prefix |-> "layers.0.", n_heads |-> n_heads,
               n_local_heads |-> n_local_heads, head_dim |-> head_dim]
    /\ ret' = load_hook(state_dict, "layers.0.", n_heads, n_local_heads,
                        head_dim)
    /\ ConfigFrame

\* the fields of TransformerArgs the head geometry depends on, with their
\* declared defaults
Defaults ==
    [dim |-> 4096, n_heads |-> 32, n_local_heads |-> -1, head_dim |-> 64,
     rope_base |-> 10000]

\* mutant of TransformerArgs: a head_dim that was passed in is kept
TransformerArgs_KeepsHeadDim(kwargs) ==
    IF ~(DOMAIN kwargs \subseteq DOMAIN Defaults) THEN Raised("TypeError")
    ELSE LET f == [k \in DOMAIN Defaults |-> Get(kwargs, k, Defaults[k])]
         IN  Returned([f EXCEPT
                 !.n_local_heads = IF @ = -1 THEN f.n_heads ELSE @,
                 !.head_dim = IF "head_dim" \in DOMAIN kwargs THEN @
                              ELSE f.dim \div f.n_heads])

\* TransformerArgs(**kwargs) followed by __post_init__: an unknown keyword
\* is a TypeError
TransformerArgs(kwargs) ==
    IF ~(DOMAIN kwargs \subseteq DOMAIN Defaults) THEN Raised("TypeError")
    ELSE LET f == [k \in DOMAIN Defaults |-> Get(kwargs, k, Defaults[k])]
         IN  Returned([f EXCEPT
                 !.n_local_heads = IF @ = -1 THEN f.n_heads ELSE @,
                 !.head_dim = f.dim \div f.n_heads])

\* params[_to] = params.pop(_from) when _from is a key of params
Replace(params, from, to) ==
    IF from \in DOMAIN params
    THEN Put(Pop(params, from), to, params[from])
    ELSE params

\* TransformerArgs.from_params(params)
TransformerArgs_from_params(params) ==
    TransformerArgs(Replace(Replace(params, "rope_theta", "rope_base"),
                            "n_kv_heads", "n_local_heads"))

\* the params dictionaries: each field absent or given, the rope base and the
\* key/value head count under either of their two names
Empty == [k \in {} |-> 0]
Opt(key, values) == {Empty} \cup {[k \in {key} |-> v] : v \in values}
ParamDicts ==
    {a @@ b @@ c @@ d @@ e :
        a \in Opt("dim", {4, 5}),
        b \in Opt("n_heads", 1 .. MaxHeads),
        c \in Opt("n_local_heads", {-1, 1}) \cup Opt("n_kv_heads", {-1, 1}),
        d \in Opt("head_dim", {3}),
        e \in Opt("rope_base", {500}) \cup Opt("rope_theta", {500})}

TransformerArgsFromParams(params) ==
    /\ Idle
    /\ arg' = [op |-> "TransformerArgs.from_params", params |-> params]
    /\ ret' = TransformerArgs_from_params(params)
    /\ ConfigFrame

\* exact fractions n / d, kept in lowest terms with d > 0
RECURSIVE GCD(_, _)
GCD(a, b) == IF b = 0 THEN a ELSE GCD(b, a % b)
Abs(a) == IF a < 0 THEN 0 - a ELSE a
Rat(n, d) ==
    LET g == GCD(Abs(n), Abs(d))
        s == IF d < 0 THEN 0 - 1 ELSE 1
    IN  [num |-> (s * n) \div g, den |-> (s * d) \div g]
RatAdd(a, b) == Rat(a.num * b.den + b.num * a.den, a.den * b.den)
RatSub(a, b) == Rat(a.num * b.den - b.num * a.den, a.den * b.den)
RatMul(a, b) == Rat(a.num * b.num, a.den * b.den)
RatDiv(a, b) == Rat(a.num * b.den, a.den * b.num)
RatLess(a, b) == a.num * b.den < b.num * a.den
Whole(n) == Rat(n, 1)

\* frequencies are counted in units of 2 * pi: the frequency of wavelength w
FreqOf(w) == Rat(1, w)

\* mutant of apply_scaling: the two terms of the interpolation are weighted
\* the other way round
apply_scaling_SmoothSwapped(freq, rope_scaling) ==
    IF ~(RequiredKeys \subseteq DOMAIN rope_scaling) THEN Raised("ValueError")
    ELSE LET scale_factor == Whole(rope_scaling["factor"])
             low_freq_factor == Whole(rope_scaling["low_freq_factor"])
             high_freq_factor == Whole(rope_scaling["high_freq_factor"])
             old_context_len ==
                 Whole(rope_scaling["original_max_position_embeddings"])
             low_freq_wavelen == RatDiv(old_context_len, low_freq_factor)
             high_freq_wavelen == RatDiv(old_context_len, high_freq_factor)
             wavelen == RatDiv(Whole(1), freq)
         IN  IF RatLess(wavelen, high_freq_wavelen) THEN Returned(freq)
             ELSE IF RatLess(low_freq_wavelen, wavelen)
             THEN Returned(RatDiv(freq, scale_factor))
             ELSE IF low_freq_wavelen = high_freq_wavelen
             THEN Raised("AssertionError")
             ELSE LET smooth ==
                          RatDiv(RatSub(RatDiv(old_context_len, wavelen),
                                        low_freq_factor),
                                 RatSub(high_freq_factor, low_freq_factor))
                  IN  Returned(RatAdd(
                          RatDiv(RatMul(smooth, freq), scale_factor),
                          RatMul(RatSub(Whole(1), smooth), freq)))

\* apply_scaling on one frequency of freqs
apply_scaling(freq, rope_scaling) ==
    IF ~(RequiredKeys \subseteq DOMAIN rope_scaling) THEN Raised("ValueError")
    ELSE LET scale_factor == Whole(rope_scaling["factor"])
             low_freq_factor == Whole(rope_scaling["low_freq_factor"])
             high_freq_factor == Whole(rope_scaling["high_freq_factor"])
             old_context_len ==
                 Whole(rope_scaling["original_max_position_embeddings"])
             low_freq_wavelen == RatDiv(old_context_len, low_freq_factor)
             high_freq_wavelen == RatDiv(old_context_len, high_freq_factor)
             wavelen == RatDiv(Whole(1), freq)
         IN  IF RatLess(wavelen, high_freq_wavelen) THEN Returned(freq)
             ELSE IF RatLess(low_freq_wavelen, wavelen)
             THEN Returned(RatDiv(freq, scale_factor))
             ELSE IF low_freq_wavelen = high_freq_wavelen
             THEN Raised("AssertionError")
             ELSE LET smooth ==
                          RatDiv(RatSub(RatDiv(old_context_len, wavelen),
                                        low_freq_factor),
                                 RatSub(high_freq_factor, low_freq_factor))
                  IN  Returned(RatAdd(
                          RatDiv(RatMul(RatSub(Whole(1), smooth), freq),
                                 scale_factor),
                          RatMul(smooth, freq)))

\* the rope_scaling dictionaries: a factor, a low and a higher high frequency
\* factor and a context length, whole or with one key missing
FullScalings ==
    {[k \in RequiredKeys |->
         CASE k = "factor" -> f
           [] k = "low_freq_factor" -> lh[1]
           [] k = "high_freq_factor" -> lh[2]
           [] OTHER -> 8] :
       f \in {2, 8}, lh \in {<<1, 4>>, <<2, 4>>, <<1, 2>>}}
ScalingDicts ==
    FullScalings \cup
    {[k \in RequiredKeys \ {missing} |-> d[k]] :
        d \in FullScalings, missing \in RequiredKeys}

ApplyScaling(w, rope_scaling) ==
    /\ Idle
    /\ arg' = [op |-> "apply_scaling", wavelen |-> w, freq |-> FreqOf(w),
               rope_scaling |-> rope_scaling]
    /\ ret' = apply_scaling(FreqOf(w), rope_scaling)
    /\ ConfigFrame

\* mutant of repeat_interleave: the heads are tiled, as Tensor.repeat does
repeat_interleave_Tiled(t, repeats) ==
    [i \in 1 .. (Len(t) * repeats) |-> t[((i - 1) % Len(t)) + 1]]

\* t.repeat_interleave(repeats, dim=1) on the head axis: every head is
\* repeated `repeats` times in place
repeat_interleave(t, repeats) ==
    [i \in 1 .. (Len(t) * repeats) |-> t[((i - 1) \div repeats) + 1]]

\* the key/value heads of an Attention with n_local_heads local heads
LocalHeads(n_local_heads) == [j \in 1 .. n_local_heads |-> [head |-> j - 1]]

\* the grouped-query step of Attention.forward: k and v are repeated
\* n_heads // n_local_heads times, and scaled_dot_product_attention pairs
\* query head h with head h of the result; it fails when the head counts
\* differ
AttentionHeads(n_heads, n_local_heads) ==
    LET k == repeat_interleave(LocalHeads(n_local_heads),
                               n_heads \div n_local_heads)
    IN  IF Len(k) # n_heads THEN Raised("RuntimeError") ELSE Returned(k)

GroupedAttention(n_heads, n_local_heads) ==
    /\ Idle
    /\ arg' = [op |-> "attention", n_heads |-> n_heads,
               n_local_heads |-> n_local_heads]
    /\ ret' = AttentionHeads(n_heads, n_local_heads)
    /\ ConfigFrame

\* Transformer.__init__ for stage stage_idx of a configuration of n_layers
\* layers over n_stages stages: the layer ids the stage owns, and whether it
\* has the embedding table, the output norm and the output projection
TransformerInit(n_layers, n_stages, stage_idx) ==
    LET layers_per_stage == n_layers \div n_stages
    IN  [layers |-> (layers_per_stage * stage_idx)
                        .. ((layers_per_stage * (stage_idx + 1)) - 1),
         tok_embeddings |-> stage_idx = 0,
         norm |-> stage_idx = n_stages - 1,
         output |-> stage_idx = n_stages - 1]

\* the decoders of all stages of one pipeline are constructed
BuildStages(n_layers, n_stages) ==
    /\ Idle
    /\ arg' = [op |-> "stages", n_layers |-> n_layers, n_stages |-> n_stages]
    /\ ret' = Returned([i \in 0 .. (n_stages - 1) |->
                            TransformerInit(n_layers, n_stages, i)])
    /\ ConfigFrame

InitCfg ==
    /\ cfg = CHOOSE c \in Configs : TRUE
    /\ InitDecoder
    /\ InitCache(1, 1)
    /\ InitFacade
    /\ InitCall
    /\ InitAttention(MaxHeads)

NextCfg ==
    \/ \E type \in ModelTypes \cup OtherTags : GetRecipe(type)
    \/ \E ta \in TransformerArgSets, type \in ModelTypes \cup OtherTags :
          BuildModel(ta, type)
    \/ \E doc \in Documents : FromParams(doc)
    \/ \E known \in KnownSets, name \in Keys : FromName(known, name)
    \/ \E params \in ParamDicts : TransformerArgsFromParams(params)
    \/ \E w \in 1 .. MaxWave, rope_scaling \in ScalingDicts :
          ApplyScaling(w, rope_scaling)
    \/ \E n_heads \in 1 .. MaxHeads, head_dim \in 1 .. MaxHeads :
          \E n_local_heads \in 1 .. n_heads, extra \in {0, 1} :
             \E state_dict \in StateDicts((n_heads + 2 * n_local_heads)
                                           * head_dim + extra) :
                LoadHook(state_dict, n_heads, n_local_heads, head_dim)
    \/ \E n_local_heads \in 1 .. MaxHeads :
          \E n_heads \in n_local_heads .. (2 * MaxHeads) :
             GroupedAttention(n_heads, n_local_heads)
    \/ \E n_layers \in 1 .. MaxPipeLayers, n_stages \in 1 .. MaxStages :
          BuildStages(n_layers, n_stages)

SpecCfg == InitCfg /\ [][NextCfg]_vars

\* ------------------------------------------------------ the Model facade
\* an optional tensor argument: None, or a sequence of positions
NoTensor == [present |-> FALSE, items |-> <<>>]
Tensor(items) == [present |-> TRUE, items |-> items]

\* n tokens of a prompt segment, and the embedding of each
Tokens(segment, n) == Tensor([i \in 1 .. n |-> [segment |-> segment, index |-> i]])
tok_embeddings(tokens) == [i \in 1 .. Len(tokens) |-> [emb |-> tokens[i]]]

\* the hidden positions the vision encoder gives for an image: the class
\* position 0, then one position per patch
encoder(encoder_input) ==
    [i \in 1 .. (Len(encoder_input) + 1) |->
        [segment |-> "image", index |-> i - 1]]

\* ConcateFusion._encoder_feature_select: the first position is dropped
encoder_feature_select(encoder_output) == Tail(encoder_output)

\* MultiModalProjector applied to each selected position
mm_projector(encoder_output) ==
    [i \in 1 .. Len(encoder_output) |-> [proj |-> encoder_output[i]]]

\* mutant of get_decoder_input: post tokens without an image are ignored
get_decoder_input_NoAssert(tokens, encoder_output, post_tokens) ==
    IF ~encoder_output.present
    THEN Returned(tok_embeddings(tokens.items))
    ELSE Returned(tok_embeddings(tokens.items)
                  \o mm_projector(encoder_output.items)
                  \o tok_embeddings(post_tokens.items))

\* mutant of get_decoder_input: the image embeddings come first
get_decoder_input_ImageFirst(tokens, encoder_output, post_tokens) ==
    IF ~encoder_output.present
    THEN IF post_tokens.present THEN Raised("AssertionError")
         ELSE Returned(tok_embeddings(tokens.items))
    ELSE Returned(mm_projector(encoder_output.items)
                  \o tok_embeddings(tokens.items)
                  \o tok_embeddings(post_tokens.items))

\* ConcateFusion._get_decoder_input: the decoder's input positions
get_decoder_input(tokens, encoder_output, post_tokens) ==
    IF ~encoder_output.present
    THEN IF post_tokens.present THEN Raised("AssertionError")
         ELSE Returned(tok_embeddings(tokens.items))
    ELSE LET pre_img_embed == tok_embeddings(tokens.items)
             image_embeds == mm_projector(encoder_output.items)
         IN  IF ~post_tokens.present
             THEN Returned(pre_img_embed \o image_embeds)
             ELSE Returned(pre_img_embed \o image_embeds
                           \o tok_embeddings(post_tokens.items))

\* torch.arange(n)
Arange(n) == [i \in 1 .. n |-> i - 1]

\* what a facade forward call returns: the logits of the decoder call d, or
\* a pair of a length and the logits
Logits(bsz, seqlen) == [kind |-> "logits", bsz |-> bsz, seqlen |-> seqlen]
Pair(first, second) == [kind |-> "pair", first |-> first, second |-> second]
RaisedAt(where, decoder_input) ==
    [status |-> "raise", at |-> where, decoder_input |-> decoder_input]
ReturnedFor(decoder_input, value) ==
    [status |-> "ok", value |-> value, decoder_input |-> decoder_input]

\* mutant of Decoder: without any positions the call takes 0, 1, ...
Decoder_DefaultPositions(bsz, seqlen, tok, input_pos) ==
    IF freqs_cis = NoBuffer
    THEN [raised |-> TRUE, caches |-> kv_cache, seen |-> NoSeen]
    ELSE LET pos == IF input_pos # NoPos THEN input_pos
                    ELSE IF _input_pos # NoPos THEN _input_pos
                    ELSE [i \in 1 .. seqlen |-> i - 1]
         IN  ForwardBody(bsz, seqlen, tok, pos) @@ [pos |-> pos]

\* Transformer.forward(x, input_pos) where input_pos may be None (NoPos):
\* the positions stored by setup_input_pos are used then, and reading them
\* fails when none were stored
Decoder(bsz, seqlen, tok, input_pos) ==
    IF freqs_cis = NoBuffer
    THEN [raised |-> TRUE, caches |-> kv_cache, seen |-> NoSeen]
    ELSE LET pos == IF input_pos # NoPos THEN input_pos ELSE _input_pos
         IN  IF pos = NoPos
             THEN [raised |-> TRUE, caches |-> kv_cache, seen |-> NoSeen]
             ELSE ForwardBody(bsz, seqlen, tok, pos) @@ [pos |-> pos]

\* the outcome of a facade call that never reached the decoder
NotCalled(r) ==
    [ret |-> r, called |-> FALSE, raised |-> TRUE, caches |-> kv_cache,
     seen |-> NoSeen, pos |-> NoPos]

\* the outcome of a facade call that ran the decoder call d on decoder_input
\* and returns value when d returns
Called(d, decoder_input, value) ==
    [ret |-> IF d.raised THEN RaisedAt("decoder", decoder_input)
             ELSE ReturnedFor(decoder_input, value),
     called |-> TRUE, raised |-> d.raised, caches |-> d.caches,
     seen |-> d.seen, pos |-> IF d.raised THEN NoPos ELSE d.pos]

\* TextOnlyModel.forward(tokens, input_pos): the decoder on the tokens
TextOnlyForward(tokens, input_pos, tok) ==
    Called(Decoder(1, Len(tokens.items), tok, input_pos), tokens.items,
           Logits(1, Len(tokens.items)))

\* ConcateFusion.forward, which LlavaModel.forward delegates to
ConcateFusionForward(tokens, post_tokens, encoder_input, input_pos, tok) ==
    LET encoder_output ==
            IF encoder_input.present
            THEN Tensor(encoder_feature_select(encoder(encoder_input.items)))
            ELSE NoTensor
        di == get_decoder_input(tokens, encoder_output, post_tokens)
    IN  IF di.status = "raise"
        THEN NotCalled(RaisedAt("_get_decoder_input", <<>>))
        ELSE LET n == Len(di.value)
             IN  IF input_pos = NoPos
                 THEN Called(Decoder(1, n, tok, Arange(n)), di.value,
                             Pair(n, Logits(1, n)))
                 ELSE Called(Decoder(1, n, tok, input_pos), di.value,
                             Logits(1, n))

\* Model.forward of the facade: TextOnlyModel takes tokens and input_pos only
ModelForward(tokens, post_tokens, encoder_input, input_pos) ==
    /\ calls < MaxCalls
    /\ model_type = "text_only"
           => ~post_tokens.present /\ ~encoder_input.present
    /\ \E m \in {IF model_type = "text_only"
                  THEN TextOnlyForward(tokens, input_pos, calls + 1)
                  ELSE ConcateFusionForward(tokens, post_tokens,
                                            encoder_input, input_pos,
                                            calls + 1)} :
          /\ calls' = calls + 1
          /\ kv_cache' = m.caches
          /\ arg' = [op |-> "forward", tokens |-> tokens,
                     post_tokens |-> post_tokens,
                     encoder_input |-> encoder_input, input_pos |-> input_pos]
          /\ ret' = m.ret
          /\ last' = IF m.raised
                     THEN Call("Model.forward", "raise", 0, 0, <<>>, NoSeen)
                     ELSE Call("Model.forward", "ok", 1,
                               Len(m.ret.decoder_input), m.pos, m.seen)
          /\ UNCHANGED <<cfg, max_batch_size, max_seq_length, freqs_cis,
                         causal_mask, nextId, req_batch, req_seq, cacheVars,
                         facadeVars, shardVars, discarded>>

\* Transformer.setup_input_pos(input_pos) on the facade's decoder
setup_input_pos(input_pos) ==
    /\ calls < MaxCalls
    /\ calls' = calls + 1
    /\ _input_pos' = input_pos
    /\ last' = Call("setup_input_pos", "ok", 0, 0, input_pos, NoSeen)
    /\ UNCHANGED <<cfg, max_batch_size, max_seq_length, freqs_cis,
                   causal_mask, kv_cache, nextId, req_batch, req_seq,
                   cacheVars, model_type, callVars, shardVars, discarded>>

\* the facades whose decoder is the Transformer of this module
FacadeTypes == {"text_only", "llava"}

\* the optional image (one or two patches) and post tokens (one) of a Llava
\* prompt
Images == {NoTensor, Tokens("patch", 1), Tokens("patch", 2)}
PostTokens == {NoTensor, Tokens("post", 1)}

\* the positions given: None, those of a prefill, or one decode position
PrefillPositions == {Arange(n) : n \in 1 .. MaxTok}
PositionArgs == {NoPos} \cup PrefillPositions \cup {<<p>> : p \in 1 .. MaxTok}

InitModel ==
    /\ cfg = CHOOSE c \in Configs : ~c.use_hf_rope /\ c.rope_scaling = NoScaling
    /\ InitDecoder
    /\ InitCache(1, 1)
    /\ model_type \in FacadeTypes
    /\ _input_pos = NoPos
    /\ InitCall
    /\ InitAttention(MaxHeads)

NextModel ==
    \/ \E b \in 1 .. MaxBatch : setup_caches(b, CacheAlign)
    \/ \E input_pos \in PositionArgs \ {NoPos} : setup_input_pos(input_pos)
    \/ \E n \in 1 .. MaxTok, post_tokens \in PostTokens,
          encoder_input \in Images, input_pos \in PositionArgs :
          ModelForward(Tokens("pre", n), post_tokens, encoder_input,
                       input_pos)

SpecModel == InitModel /\ [][NextModel]_vars

\* ------------------------------------------------ the distributed decoder
\* the sizes of the device meshes a decoder is distributed over
Degrees == 1 .. MaxHeads

\* Transformer.distribute(device_mesh) with a mesh of D participants: every
\* layer's Attention records the mesh size as tp_degree and has wq, wk, wv
\* sharded by columns. Caches that exist are left as they are.
distribute(D) ==
    /\ calls < MaxCalls
    /\ calls' = calls + 1
    /\ tp_degree' = [l \in Layers |-> D]
    /\ last' = Call("distribute", "ok", D, 0, <<>>, NoSeen)
    /\ UNCHANGED <<cfg, max_batch_size, max_seq_length, freqs_cis,
                   causal_mask, kv_cache, nextId, req_batch, req_seq,
                   cacheVars, facadeVars, callVars, self_n_local_heads,
                   kv_heads, discarded>>

\* the head count of the k and v that Attention.forward of layer l hands to
\* kv_cache.update: the width of wk(x), which the column sharding divides by
\* the mesh size, viewed in rows of head_dim
ForwardKVHeads(l) ==
    IF tp_degree[l] # NoDegree
    THEN self_n_local_heads \div tp_degree[l]
    ELSE self_n_local_heads

InitTP ==
    /\ cfg = CHOOSE c \in Configs : ~c.use_hf_rope /\ c.rope_scaling = NoScaling
    /\ InitDecoder
    /\ InitCache(1, 1)
    /\ InitFacade
    /\ InitCall
    /\ \E h \in 1 .. MaxHeads : InitAttention(h)

NextTP ==
    \/ \E D \in Degrees : distribute(D)
    \/ \E b \in 1 .. MaxBatch, s \in SeqRequests : setup_caches(b, s)

SpecTP == InitTP /\ [][NextTP]_vars

\* ------------------------------------------------------------------ claims
\* the positions of a position sequence
Range(seq) == {seq[i] : i \in 1 .. Len(seq)}

\* the row of a [batch, seq] tensor that index_put_ broadcasts to buffer row r
Row(val, r) == IF Batch(val) = 1 THEN 1 ELSE r

\* a step that is a call of the decoder operation op
DecoderCall(op) == calls' = calls + 1 /\ last'.op = op

\* the rotary table, the causal mask and every owned layer's cache are present
Ready ==
    /\ freqs_cis # NoBuffer
    /\ causal_mask # NoMask
    /\ \A l \in Layers : kv_cache[l] # None

\* C1: a setup_caches(b, s) call on a decoder whose recorded batch and
\* sequence capacities are at least b and s returns without changing the
\* recorded capacities, any layer's KV cache (identity and contents), the
\* rotary table or the causal mask.
C1_CoveredSetupIsNoOp ==
    [][(/\ DecoderCall("setup_caches")
        /\ last'.b <= max_batch_size
        /\ last'.s <= max_seq_length)
       => (/\ last'.status = "ok"
           /\ UNCHANGED <<max_batch_size, max_seq_length, kv_cache,
                          freqs_cis, causal_mask, nextId>>)]_vars

\* a covered setup_caches call has returned on a decoder whose caches hold
\* entries written by an earlier forward call
C1_Witness ==
    /\ last.op = "setup_caches"
    /\ last.b < max_batch_size
    /\ last.s < max_seq_length
    /\ \E l \in Layers : kv_cache[l].k_cache[1][0] # Zero

\* C2: after any sequence of setup_caches calls the batch capacity and the
\* sequence capacity never decrease, and each is at least the largest value
\* requested for it in any call so far.
C2_CapacityIsMaxOfRequests ==
    [][/\ max_batch_size' >= max_batch_size
       /\ max_seq_length' >= max_seq_length
       /\ max_batch_size' >= req_batch'
       /\ max_seq_length' >= req_seq']_vars

\* C3: after the first update(P, k, v) of a freshly allocated KVCache, P being
\* distinct positions within capacity and k, v having len(P) positions, the
\* cache holds k and v at the positions P (index i of k at position P[i]) and
\* the fill value at every other position.
C3_FreshUpdateRoundTrip ==
    (kv_calls = 1 /\ kv_last.status = "ok")
    => \A r \in 1 .. BufBatch(kvc.k_cache) :
          /\ \A i \in 1 .. Len(kv_last.pos) :
                /\ kvc.k_cache[r][kv_last.pos[i]]
                       = kv_last.k[Row(kv_last.k, r)][i]
                /\ kvc.v_cache[r][kv_last.pos[i]]
                       = kv_last.v[Row(kv_last.v, r)][i]
          /\ \A p \in (0 .. (KVCap - 1)) \ Range(kv_last.pos) :
                kvc.k_cache[r][p] = Zero /\ kvc.v_cache[r][p] = Zero

\* the first update of a fresh cache wrote MaxTok positions, the first of
\* them not position 0
C3_Witness ==
    /\ kv_calls = 1
    /\ kv_last.status = "ok"
    /\ Len(kv_last.pos) = MaxTok
    /\ kv_last.pos[1] > 0

\* the completed updates that wrote position p, and what the cache must hold
\* at row r, position p after them
Writers(p) == {h \in 1 .. Len(kv_hist) : p \in Range(kv_hist[h].pos)}
LastWriter(p) == CHOOSE h \in Writers(p) : \A g \in Writers(p) : g <= h
IndexOf(pos, p) == CHOOSE i \in 1 .. Len(pos) : pos[i] = p
ExpectedK(r, p) ==
    IF Writers(p) = {} THEN Zero
    ELSE LET u == kv_hist[LastWriter(p)]
         IN  u.k[Row(u.k, r)][IndexOf(u.pos, p)]
ExpectedV(r, p) ==
    IF Writers(p) = {} THEN Zero
    ELSE LET u == kv_hist[LastWriter(p)]
         IN  u.v[Row(u.v, r)][IndexOf(u.pos, p)]

\* C4: after any sequence of updates of a KVCache, a position in no completed
\* update's position set holds the fill value, and a written position holds
\* the k and v of the most recent completed update that included it.
C4_CacheHoldsLastWrites ==
    \A r \in 1 .. BufBatch(kvc.k_cache), p \in 0 .. (KVCap - 1) :
        /\ kvc.k_cache[r][p] = ExpectedK(r, p)
        /\ kvc.v_cache[r][p] = ExpectedV(r, p)

\* two updates completed; one position was written by both, one by the first
\* only and one by none
C4_Witness ==
    /\ Len(kv_hist) = 2
    /\ \E p, q, z \in 0 .. (KVCap - 1) :
          /\ Writers(p) = {1, 2}
          /\ Writers(q) = {1}
          /\ Writers(z) = {}

\* C5: in a forward call that completes, the K and V every layer's attention
\* is computed with are the buffers update returned: they are that layer's
\* whole cache after the write, of the cache's batch and sequence capacity,
\* holding the call's entries at its positions and, at every other position,
\* what the cache held before the call.
C5_AttentionSeesFullBuffers ==
    [][(DecoderCall("forward") /\ last'.status = "ok")
       => \A l \in Layers :
             /\ last'.seen[l].k = kv_cache'[l].k_cache
             /\ last'.seen[l].v = kv_cache'[l].v_cache
             /\ BufSeq(last'.seen[l].k) = max_seq_length
             /\ BufSeq(last'.seen[l].v) = max_seq_length
             /\ \A r \in 1 .. max_batch_size, p \in 0 .. (max_seq_length - 1) :
                   IF p \in Range(last'.pos)
                   THEN /\ last'.seen[l].k[r][p]
                              = KEntry(l, calls', r, IndexOf(last'.pos, p))
                        /\ last'.seen[l].v[r][p]
                              = VEntry(l, calls', r, IndexOf(last'.pos, p))
                   ELSE /\ last'.seen[l].k[r][p] = kv_cache[l].k_cache[r][p]
                        /\ last'.seen[l].v[r][p] = kv_cache[l].v_cache[r][p]]_vars

\* a decode step completed whose attention saw an entry written by the
\* earlier prefill call
C5_Witness ==
    /\ last.op = "forward"
    /\ last.status = "ok"
    /\ \E l \in Layers, p \in 0 .. (max_seq_length - 1) :
          /\ p \notin Range(last.pos)
          /\ last.seen[l].k[1][p] # Zero

\* C6: an update(P, k, v) call with len(P) different from the sequence length
\* of k fails and leaves the cache's buffers as they were.
C6_LengthMismatchFailsClean ==
    [][(/\ kv_calls' = kv_calls + 1
        /\ Len(kv_last'.pos) # SeqLen(kv_last'.k))
       => (kv_last'.status = "raise" /\ kvc' = kvc)]_vars

\* an update with mismatched lengths failed on a cache that holds entries
C6_Witness ==
    /\ kv_last.status = "raise"
    /\ Len(kv_last.pos) # SeqLen(kv_last.k)
    /\ Len(kv_hist) = 1
    /\ \E p \in 0 .. (KVCap - 1) : kvc.k_cache[1][p] # Zero

\* C7: a forward call on a decoder on which setup_caches was never called
\* fails, and the decoder is as it was constructed.
C7_ForwardBeforeSetupFails ==
    (last.op = "forward" /\ req_seq = Unset)
    => /\ last.status = "raise"
       /\ last.seen = NoSeen
       /\ max_batch_size = Unset
       /\ max_seq_length = Unset
       /\ freqs_cis = NoBuffer
       /\ causal_mask = NoMask
       /\ kv_cache = [l \in Layers |-> None]

\* a forward call was made before any setup_caches call
C7_Witness == last.op = "forward" /\ req_seq = Unset /\ calls = 1

\* C8: a forward call that raises leaves every layer's KV cache, the rotary
\* table and the causal mask as they were before the call.
C8_ForwardIsAtomic ==
    [][(DecoderCall("forward") /\ last'.status = "raise")
       => UNCHANGED <<kv_cache, freqs_cis, causal_mask>>]_vars

\* C9: once a setup_caches call has returned without raising, the rotary
\* table, the causal mask and every layer's KV cache are present, and they
\* stay present after every later call.
C9_LifecycleOnlyMovesForward ==
    [][((DecoderCall("setup_caches") /\ last'.status = "ok") \/ Ready)
       => Ready']_vars

\* C10: in a completed forward call whose positions start where the written
\* prefix of the caches ends (a prefill from 0, then steps at n, n + 1, ...),
\* the key positions the mask row of position p lets attention read are
\* exactly 0 .. p, and at each of them the K and V attention is computed with
\* hold a written entry, in every layer and batch row.
C10_DecodeReadsOnlyWritten ==
    [][(/\ DecoderCall("forward")
        /\ last'.status = "ok"
        /\ \A l \in Layers, r \in 1 .. max_batch_size,
              j \in 0 .. (last'.pos[1] - 1) :
              kv_cache[l].k_cache[r][j] # Zero /\ kv_cache[l].v_cache[r][j] # Zero)
       => \A i \in 1 .. Len(last'.pos) :
             /\ MaskRows(last'.pos)[i] = 0 .. last'.pos[i]
             /\ \A l \in Layers, r \in 1 .. max_batch_size,
                   j \in MaskRows(last'.pos)[i] :
                   /\ last'.seen[l].k[r][j] # Zero
                   /\ last'.seen[l].v[r][j] # Zero]_vars

\* a single-token step at position MaxTok completed after a prefill of the
\* positions below it
C10_Witness ==
    /\ last.op = "forward"
    /\ last.status = "ok"
    /\ last.pos = <<MaxTok>>
    /\ \A l \in Layers, j \in 0 .. MaxTok : last.seen[l].k[1][j] # Zero

\* C11: get_recipe returns, for TextOnly and for Llama3_1, a recipe of that
\* type with the single module "text" and identity fusion; for Flamingo the
\* modules "encoder" and "decoder" with the deep-fusion wrapper; for Llava the
\* modules "encoder" and "decoder" with concatenation fusion; for any other
\* tag it raises and returns no recipe.
C11_RecipeTable ==
    arg.op = "get_recipe"
    => IF arg.model_type \in ModelTypes
       THEN /\ ret.status = "ok"
            /\ ret.value.model_type = arg.model_type
            /\ DOMAIN ret.value.modules
                   = (IF arg.model_type \in {"text_only", "llama3_1"}
                      THEN {"text"} ELSE {"encoder", "decoder"})
            /\ ret.value.fusion_class
                   = (CASE arg.model_type \in {"text_only", "llama3_1"}
                              -> "identity"
                        [] arg.model_type = "flamingo" -> "DeepFusionModel"
                        [] arg.model_type = "llava" -> "ConcateFusion")
       ELSE ret = Raised("ValueError")

\* get_recipe was applied to Llava and returned
C11_Witness ==
    arg.op = "get_recipe" /\ arg.model_type = "llava" /\ ret.status = "ok"

\* the module names the recipe of a model type requires
RequiredNames(type) == DOMAIN get_recipe(type).value.modules

\* C12: building a model from a configuration that lacks a sub-module name
\* required by the recipe of its model type raises and produces no model;
\* when every required name is present the build succeeds and the model is
\* made of the required names' parameters only, whatever other names the
\* configuration carries.
C12_RequiredModulesPresent ==
    (arg.op = "build_model" /\ arg.model_type \in ModelTypes)
    => IF RequiredNames(arg.model_type) \subseteq DOMAIN arg.transformer_args
       THEN /\ ret.status = "ok"
            /\ DOMAIN ret.value.modules = RequiredNames(arg.model_type)
            /\ \A n \in RequiredNames(arg.model_type) :
                   ret.value.modules[n].params = arg.transformer_args[n]
       ELSE ret.status = "raise"

\* a Llava configuration without "encoder" was rejected
C12_Witness ==
    /\ arg.op = "build_model"
    /\ arg.model_type = "llava"
    /\ DOMAIN arg.transformer_args = {"decoder", "extra"}
    /\ ret.status = "raise"

\* the result C13 describes for a document whose model_type counts as absent
TextOnlyResult ==
    /\ ret.status = "ok"
    /\ ret.value.model_type = "text_only"
    /\ DOMAIN ret.value.transformer_args = {"text"}
    /\ ret.value.transformer_args["text"] = arg.doc

\* the result C13 describes for a document whose model_type is given
TypedResult ==
    IF arg.doc["model_type"] \in ModelTypes
    THEN /\ ret.status = "ok"
         /\ ret.value.model_type = arg.doc["model_type"]
         /\ DOMAIN ret.value.transformer_args = DOMAIN arg.doc \ {"model_type"}
         /\ \A k \in DOMAIN ret.value.transformer_args :
                ret.value.transformer_args[k] = arg.doc[k]
    ELSE ret.status = "raise"

\* C13 as stated: from_params gives TextOnly with the single sub-module
\* "text" holding the whole document when the key model_type is absent; when
\* it is present, that model type with one sub-module per other key; and it
\* raises when the value of model_type is not one of the four known tags.
C13_FromParams ==
    arg.op = "from_params"
    => IF "model_type" \notin DOMAIN arg.doc THEN TextOnlyResult
       ELSE TypedResult

\* C13 amended: a model_type that is absent or null gives TextOnly with the
\* single sub-module "text" holding the whole document; any other value is
\* treated as C13 states.
C13_FromParamsNullIsAbsent ==
    arg.op = "from_params"
    => IF Get(arg.doc, "model_type", JsonNull) = JsonNull THEN TextOnlyResult
       ELSE TypedResult

\* from_params returned for a document that names Llava and has two other keys
C13_Witness ==
    /\ arg.op = "from_params"
    /\ Get(arg.doc, "model_type", JsonNull) = "llava"
    /\ DOMAIN arg.doc = {"model_type", "encoder", "decoder"}
    /\ ret.status = "ok"

\* what C14 states of a lookup whose matching config names are matches
LongestOrError(matches) ==
    IF matches = {} \/ Cardinality(Longest(matches)) > 1
    THEN ret.status = "raise"
    ELSE ret = Returned(CHOOSE c \in Longest(matches) : TRUE)

\* C14 as stated: for a key that is no known config name, from_name selects
\* the longest of the known names contained in the key, and raises when no
\* known name is contained in the key or the two longest have equal length.
C14_FromName ==
    (arg.op = "from_name" /\ arg.name \notin arg.known)
    => LongestOrError({c \in arg.known : Contains(c, arg.name)})

\* C14 amended: the same, the matching names being the known names contained
\* in the key or in the upper-cased key.
C14_FromNameUpperCased ==
    (arg.op = "from_name" /\ arg.name \notin arg.known)
    => LongestOrError({c \in arg.known :
                          Contains(c, arg.name) \/ Contains(c, Upper(arg.name))})

\* a key whose upper-cased form contains a short and a long known name, and
\* which itself contains neither, selected the long one
C14_Witness ==
    /\ arg.op = "from_name"
    /\ arg.name \notin arg.known
    /\ {c \in arg.known : Contains(c, arg.name)} = {}
    /\ Cardinality({c \in arg.known : Contains(c, Upper(arg.name))}) = 2
    /\ ret.status = "ok"
    /\ ret.value = <<"M", "7", "B">>

\* C15: in a LlavaModel forward call with encoder input, the decoder input is
\* the embeddings of the pre tokens, then the projected selected encoder
\* positions, then the embeddings of the post tokens if any, in that order;
\* its length is len(pre) + len(encoder output) + len(post).
C15_DecoderInputOrder ==
    (/\ arg.op = "forward"
     /\ model_type = "llava"
     /\ arg.encoder_input.present)
    => LET pre == arg.tokens.items
           img == Len(arg.encoder_input.items)
           post == arg.post_tokens.items
           d == ret.decoder_input
       IN  /\ Len(d) = Len(pre) + img + Len(post)
           /\ \A i \in 1 .. Len(pre) : d[i] = [emb |-> pre[i]]
           /\ \A i \in 1 .. img :
                  d[Len(pre) + i]
                      = [proj |-> [segment |-> "image", index |-> i]]
           /\ \A i \in 1 .. Len(post) :
                  d[Len(pre) + img + i] = [emb |-> post[i]]

\* a Llava call with two pre tokens, a two-patch image and a post token
\* returned
C15_Witness ==
    /\ arg.op = "forward"
    /\ model_type = "llava"
    /\ arg.encoder_input = Tokens("patch", 2)
    /\ arg.post_tokens.present
    /\ Len(arg.tokens.items) = 2
    /\ ret.status = "ok"

\* C16: a LlavaModel forward call with post tokens and without encoder input
\* raises in _get_decoder_input, before the decoder is invoked: no layer's KV
\* cache, nor the rotary table, the mask or the capacities, is changed.
C16_PostWithoutEncoderFails ==
    [][(/\ DecoderCall("Model.forward")
        /\ model_type = "llava"
        /\ arg'.post_tokens.present
        /\ ~arg'.encoder_input.present)
       => (/\ ret'.status = "raise"
           /\ ret'.at = "_get_decoder_input"
           /\ UNCHANGED <<kv_cache, freqs_cis, causal_mask, max_batch_size,
                          max_seq_length, _input_pos>>)]_vars

\* such a call was made with explicit positions on a model whose caches were
\* set up and hold entries
C16_Witness ==
    /\ last.op = "Model.forward"
    /\ arg.input_pos # NoPos
    /\ model_type = "llava"
    /\ arg.post_tokens.present
    /\ ~arg.encoder_input.present
    /\ max_batch_size = 1
    /\ \E l \in Layers : kv_cache[l].k_cache[1][0] # Zero

\* C17: a Model.forward call that returns, returns the logits tensor and
\* nothing else, on a prefill call (no input positions) and on a decode step
\* (explicit input positions), for the TextOnly and the Llava model.
C17_ForwardReturnsLogits ==
    (arg.op = "forward" /\ ret.status = "ok") => ret.value.kind = "logits"

\* C18: when the state_dict holds the fused wqkv weight of the module (of
\* (n_heads + 2 * n_local_heads) * head_dim rows), load_hook removes it and
\* adds wq, wk and wv of n_heads * head_dim, n_local_heads * head_dim and
\* n_local_heads * head_dim rows whose concatenation in that order is the
\* fused weight, every other entry staying as it was; a state_dict without
\* the fused weight is left unchanged.
C18_LoadHookSplitsFused ==
    arg.op = "load_hook"
    => LET fused == Key(arg.prefix, "wqkv.weight")
           wq == Key(arg.prefix, "wq.weight")
           wk == Key(arg.prefix, "wk.weight")
           wv == Key(arg.prefix, "wv.weight")
           q_size == arg.n_heads * arg.head_dim
           kv_size == arg.n_local_heads * arg.head_dim
       IN  IF fused \notin DOMAIN arg.state_dict
           THEN ret = Returned(arg.state_dict)
           ELSE Len(arg.state_dict[fused]) = q_size + 2 * kv_size
                => /\ ret.status = "ok"
                   /\ DOMAIN ret.value
                          = (DOMAIN arg.state_dict \ {fused}) \cup {wq, wk, wv}
                   /\ Len(ret.value[wq]) = q_size
                   /\ Len(ret.value[wk]) = kv_size
                   /\ Len(ret.value[wv]) = kv_size
                   /\ ret.value[wq] \o ret.value[wk] \o ret.value[wv]
                          = arg.state_dict[fused]
                   /\ \A k \in DOMAIN arg.state_dict \ {fused} :
                          ret.value[k] = arg.state_dict[k]

\* the hook split the fused weight of a grouped-query module (fewer key/value
\* heads than query heads) in a state_dict that holds other entries too
C18_Witness ==
    /\ arg.op = "load_hook"
    /\ arg.n_local_heads < arg.n_heads
    /\ Cardinality(DOMAIN arg.state_dict) = 3
    /\ ret.status = "ok"

\* the params with rope_theta and n_kv_heads renamed to rope_base and
\* n_local_heads
Canon(k) ==
    CASE k = "rope_theta" -> "rope_base"
      [] k = "n_kv_heads" -> "n_local_heads"
      [] OTHER -> k
Canonical(params) ==
    [k \in {Canon(j) : j \in DOMAIN params} |->
        params[CHOOSE j \in DOMAIN params : Canon(j) = k]]

\* C19: a TransformerArgs made by from_params has head_dim = dim / n_heads
\* (integer division) whatever head_dim was passed, has n_local_heads =
\* n_heads when no key/value head count (or -1) was passed, and is the one
\* made from the same params with rope_theta and n_kv_heads spelled
\* rope_base and n_local_heads.
C19_HeadGeometry ==
    arg.op = "TransformerArgs.from_params"
    => /\ ret.status = "ok"
       /\ ret.value.head_dim = ret.value.dim \div ret.value.n_heads
       /\ ret.value.dim = Get(arg.params, "dim", Defaults.dim)
       /\ ret.value.n_heads = Get(arg.params, "n_heads", Defaults.n_heads)
       /\ Get(Canonical(arg.params), "n_local_heads", -1) = -1
             => ret.value.n_local_heads = ret.value.n_heads
       /\ ret = TransformerArgs(Canonical(arg.params))

\* from_params was given head_dim, n_kv_heads and rope_theta, with a dim that
\* n_heads does not divide
C19_Witness ==
    /\ arg.op = "TransformerArgs.from_params"
    /\ {"head_dim", "n_kv_heads", "rope_theta", "dim", "n_heads"}
           \subseteq DOMAIN arg.params
    /\ arg.params["dim"] = 5
    /\ arg.params["n_heads"] = 2
    /\ ret.status = "ok"
    /\ ret.value.rope_base = 500

\* C20: apply_scaling raises when one of the four required keys is missing.
\* Otherwise (low_freq_factor < high_freq_factor), with L the original
\* context length, a frequency of wavelength w is returned unchanged when
\* w < L / high_freq_factor, divided by factor when w > L / low_freq_factor,
\* and in between is freq * (1 + s * (factor - 1)) / factor with
\* s = (L / w - low_freq_factor) / (high_freq_factor - low_freq_factor), which
\* is the unchanged frequency at w = L / high_freq_factor and freq / factor
\* at w = L / low_freq_factor.
C20_ScalingBands ==
    arg.op = "apply_scaling"
    => IF ~(RequiredKeys \subseteq DOMAIN arg.rope_scaling)
       THEN ret.status = "raise"
       ELSE LET w == arg.wavelen
                factor == arg.rope_scaling["factor"]
                lf == arg.rope_scaling["low_freq_factor"]
                hf == arg.rope_scaling["high_freq_factor"]
                L == arg.rope_scaling["original_max_position_embeddings"]
                out == ret.value
            IN  /\ ret.status = "ok"
                /\ w * hf <= L => out = arg.freq
                /\ w * lf >= L => out.num * factor * w = out.den
                /\ (w * hf >= L /\ w * lf <= L)
                      => out.num * factor * w * w * (hf - lf)
                            = out.den * (w * (hf - lf)
                                         + (factor - 1) * (L - lf * w))

\* a frequency strictly inside the interpolated band was scaled
C20_Witness ==
    /\ arg.op = "apply_scaling"
    /\ ret.status = "ok"
    /\ RatLess(RatDiv(arg.freq, Whole(arg.rope_scaling["factor"])), ret.value)
    /\ RatLess(ret.value, arg.freq)

\* a step that is a setup_caches(b, s) call which does not return early
SetupStep ==
    /\ DecoderCall("setup_caches")
    /\ ~AlreadyCovered(last'.b, last'.s)

\* the identities of the buffers the decoder holds
BufferIds ==
    {kv_cache[l].id : l \in Layers} \cup {freqs_cis.id, causal_mask.id}

\* C21: a setup_caches(b, s) call that is not a no-op sets the sequence
\* capacity to the smallest multiple of 8 that is >= s and the batch capacity
\* to b, and gives every layer's Attention its own new zero-filled KV cache
\* of exactly that batch and sequence capacity; no two layers share a cache.
C21_SetupAllocatesAligned ==
    [][SetupStep
       => (/\ max_seq_length' % CacheAlign = 0
           /\ max_seq_length' >= last'.s
           /\ max_seq_length' - CacheAlign < last'.s
           /\ max_batch_size' = last'.b
           /\ \A l \in Layers :
                 /\ kv_cache'[l] # None
                 /\ kv_cache'[l].id \notin BufferIds
                 /\ kv_cache'[l].k_cache = Zeros(last'.b, max_seq_length')
                 /\ kv_cache'[l].v_cache = Zeros(last'.b, max_seq_length')
                 /\ BufBatch(kv_cache'[l].k_cache) = last'.b
                 /\ BufSeq(kv_cache'[l].k_cache) = max_seq_length'
           /\ \A l, k \in Layers :
                 l # k => kv_cache'[l].id # kv_cache'[k].id)]_vars

\* two setup_caches calls in a row allocated: the second, for MaxBatch rows
\* and a length just above the alignment, replaced the caches of the first
C21_Witness ==
    /\ calls = 2
    /\ last.op = "setup_caches"
    /\ last.b = MaxBatch
    /\ last.s = CacheAlign + 1
    /\ max_seq_length = 2 * CacheAlign
    /\ kv_cache[0].id > NLayers

\* some setup_caches call was made and none raised: the first call never
\* returns early, and a call that does not return early raises exactly when
\* precompute_freqs_cis does
AllSetupsSucceeded == req_seq # Unset /\ ~PrecomputeRaises(cfg)

\* C22: after any sequence of successful setup_caches calls, the recorded
\* max_seq_length, the side of the square lower-triangular causal mask and
\* the sequence capacity of every layer's KV cache are equal, and the
\* recorded max_batch_size is every cache's batch capacity.
C22_CapacitiesAgree ==
    AllSetupsSucceeded
    => /\ causal_mask # NoMask
       /\ DOMAIN causal_mask.m = 0 .. (max_seq_length - 1)
       /\ \A i \in DOMAIN causal_mask.m :
             /\ DOMAIN causal_mask.m[i] = 0 .. (max_seq_length - 1)
             /\ \A j \in DOMAIN causal_mask.m[i] :
                   causal_mask.m[i][j] <=> (j <= i)
       /\ \A l \in Layers :
             /\ kv_cache[l] # None
             /\ BufSeq(kv_cache[l].k_cache) = max_seq_length
             /\ BufSeq(kv_cache[l].v_cache) = max_seq_length
             /\ BufBatch(kv_cache[l].k_cache) = max_batch_size
             /\ BufBatch(kv_cache[l].v_cache) = max_batch_size

\* a forward call completed on a decoder that a second setup_caches call had
\* grown to MaxBatch rows and two alignments of positions
C22_Witness ==
    /\ AllSetupsSucceeded
    /\ calls = 3
    /\ kv_cache[0].id > NLayers
    /\ max_batch_size = MaxBatch
    /\ max_seq_length = 2 * CacheAlign
    /\ last.op = "forward"
    /\ last.status = "ok"

\* C23: after setup_caches(b, s) succeeds, every absolute position p with
\* 0 <= p < the sequence capacity of the KV cache has a row in the rotary
\* table, so a forward call of one token at any such position does not fail.
C23_RotaryCoversCapacity ==
    AllSetupsSucceeded
    => /\ freqs_cis.rows >= max_seq_length
       /\ \A p \in 0 .. (max_seq_length - 1) :
             ~TransformerForward(max_batch_size, 1, calls + 1, <<p>>).raised

\* C24: whenever a decoder is both distributed across D participants and has
\* its caches set up, in whichever order the two were called, each
\* Attention's KV cache has n_local_heads / D heads, the head count of the
\* sharded key/value tensors that forward writes into it (D dividing
\* n_local_heads).
C24_CacheHeadsFollowSharding ==
    \A l \in Layers :
        (/\ tp_degree[l] # NoDegree
         /\ kv_cache[l] # None
         /\ self_n_local_heads % tp_degree[l] = 0)
        => /\ kv_heads[l] = self_n_local_heads \div tp_degree[l]
           /\ kv_heads[l] = ForwardKVHeads(l)

\* C25: in grouped-query attention with g = n_heads / n_local_heads, query
\* head h attends with the key/value of local head floor(h / g): each local
\* head is used by exactly g consecutive query heads and every query head
\* uses exactly one local head; with g = 1 keys and values are unchanged.
C25_GroupedQueryBroadcast ==
    (arg.op = "attention" /\ arg.n_heads % arg.n_local_heads = 0)
    => LET g == arg.n_heads \div arg.n_local_heads
       IN  /\ ret.status = "ok"
           /\ Len(ret.value) = arg.n_heads
           /\ \A h \in 0 .. (arg.n_heads - 1) :
                 ret.value[h + 1] = [head |-> h \div g]
           /\ \A j \in 0 .. (arg.n_local_heads - 1) :
                 {h \in 0 .. (arg.n_heads - 1) : ret.value[h + 1].head = j}
                     = (j * g) .. ((j * g) + g - 1)
           /\ g = 1 => ret.value = LocalHeads(arg.n_local_heads)

\* MaxHeads local heads were each broadcast to two query heads
C25_Witness ==
    /\ arg.op = "attention"
    /\ arg.n_local_heads = MaxHeads
    /\ arg.n_heads = 2 * MaxHeads
    /\ ret.status = "ok"

\* a step that is a forward call of the text-only facade, which hands its
\* tokens and input_pos to Transformer.forward as they are
TransformerForwardStep ==
    DecoderCall("Model.forward") /\ model_type = "text_only"

\* the forward call of the step completed and wrote its entries at positions P
WroteAt(P) ==
    /\ last'.status = "ok"
    /\ last'.pos = P
    /\ \A l \in Layers, i \in 1 .. Len(P) :
          kv_cache'[l].k_cache[1][P[i]] = KEntry(l, calls', 1, i)

\* C26: Transformer.forward called without input_pos uses the positions most
\* recently stored by setup_input_pos; an explicitly passed input_pos takes
\* precedence and leaves the stored positions unchanged; without input_pos
\* and with setup_input_pos never called, the call fails.
C26_StoredPositions ==
    [][TransformerForwardStep
       => (/\ _input_pos' = _input_pos
           /\ (arg'.input_pos # NoPos /\ last'.status = "ok")
                  => WroteAt(arg'.input_pos)
           /\ (arg'.input_pos = NoPos /\ _input_pos # NoPos)
                  => /\ last'.status = "ok" => WroteAt(_input_pos)
                     /\ kv_cache' = Decoder(1, Len(arg'.tokens.items), calls',
                                            _input_pos).caches
           /\ (arg'.input_pos = NoPos /\ _input_pos = NoPos)
                  => (last'.status = "raise" /\ kv_cache' = kv_cache))]_vars

\* a forward call without input_pos completed at the stored position 1, which
\* is not the position a default would give its single token
C26_Witness ==
    /\ model_type = "text_only"
    /\ last.op = "Model.forward"
    /\ last.status = "ok"
    /\ arg.input_pos = NoPos
    /\ _input_pos = <<1>>
    /\ last.pos = <<1>>

\* C27: a successful decoder forward call at positions P changes, in each
\* owned layer's KV cache, only the entries at sequence positions P; the cache
\* entries at every other position, the rotary table, the causal mask, the
\* recorded capacities and a cache the decoder does not own are unchanged.
C27_ForwardFrame ==
    [][(DecoderCall("forward") /\ last'.status = "ok")
       => (/\ \A l \in Layers :
                 /\ kv_cache'[l].id = kv_cache[l].id
                 /\ BufBatch(kv_cache'[l].k_cache) = BufBatch(kv_cache[l].k_cache)
                 /\ BufBatch(kv_cache'[l].v_cache) = BufBatch(kv_cache[l].v_cache)
                 /\ DOMAIN kv_cache'[l].k_cache[1] = DOMAIN kv_cache[l].k_cache[1]
                 /\ DOMAIN kv_cache'[l].v_cache[1] = DOMAIN kv_cache[l].v_cache[1]
                 /\ \A r \in 1 .. max_batch_size,
                       p \in (0 .. (max_seq_length - 1)) \ Range(last'.pos) :
                       /\ kv_cache'[l].k_cache[r][p] = kv_cache[l].k_cache[r][p]
                       /\ kv_cache'[l].v_cache[r][p] = kv_cache[l].v_cache[r][p]
           /\ UNCHANGED <<freqs_cis, causal_mask, max_batch_size,
                          max_seq_length, kvc>>)]_vars

\* the third call, a forward call that completed, left in place an entry an
\* earlier forward call had written at position 0
C27_Witness ==
    /\ calls = 3
    /\ last.op = "forward"
    /\ last.status = "ok"
    /\ 0 \notin Range(last.pos)
    /\ \A l \in Layers : kv_cache[l].k_cache[1][0] # Zero

\* C28: for n_layers layers split over n_stages pipeline stages, the layer-id
\* sets owned by stages 0 .. n_stages-1 are pairwise disjoint and their union
\* is exactly 0 .. n_layers-1, for every n_layers and n_stages; only stage 0
\* owns the embedding table and only the last stage owns the output norm and
\* projection.
C28_StagesPartitionLayers ==
    arg.op = "stages"
    => LET stages == 0 .. (arg.n_stages - 1)
       IN  /\ \A i, j \in stages :
                 i # j => ret.value[i].layers \cap ret.value[j].layers = {}
           /\ UNION {ret.value[i].layers : i \in stages}
                  = 0 .. (arg.n_layers - 1)
           /\ \A i \in stages :
                 /\ ret.value[i].tok_embeddings <=> i = 0
                 /\ ret.value[i].norm <=> i = arg.n_stages - 1
                 /\ ret.value[i].output <=> i = arg.n_stages - 1

\* the last call was a setup_caches call that did not return early, made
\* while the model was Decoding: some layer's cache held the entries of a
\* forward call
GrewWhileDecoding == calls > 0 /\ discarded = calls

\* C29: a setup_caches call that grows capacity while the model is Decoding
\* replaces every layer's KV cache by a new zero-filled one: no key/value
\* written by an earlier forward call is retained at any position, so a
\* decode step that follows without a new prefill attends only to
\* zero-filled history.
C29_GrowthDiscardsHistory ==
    GrewWhileDecoding
    => /\ \A l \in Layers, r \in 1 .. max_batch_size,
             p \in 0 .. (max_seq_length - 1) :
             /\ kv_cache[l].k_cache[r][p] = Zero
             /\ kv_cache[l].v_cache[r][p] = Zero
       /\ \A p \in 1 .. MaxTok :
             \A step \in {TransformerForward(max_batch_size, 1, calls + 1,
                                              <<p>>)} :
                ~step.raised
                => \A l \in Layers, r \in 1 .. max_batch_size,
                      j \in (0 .. (max_seq_length - 1)) \ {p} :
                      /\ step.seen[l].k[r][j] = Zero
                      /\ step.seen[l].v[r][j] = Zero

\* a setup_caches call replaced caches that held the entries of a completed
\* forward call, and a decode step at position 1 would complete
C29_Witness ==
    /\ GrewWhileDecoding
    /\ last.op = "setup_caches"
    /\ last.status = "ok"
    /\ ~TransformerForward(max_batch_size, 1, calls + 1, <<1>>).raised

\* C30: setup_caches is all-or-nothing: if a call raises, the recorded
\* max_seq_length and max_batch_size and every layer's KV cache are as before
\* the call, so a later setup_caches with the same sizes is not skipped as
\* already covered while the rotary table and causal mask are still absent.
C30_SetupIsAllOrNothing ==
    [][(DecoderCall("setup_caches") /\ last'.status = "raise")
       => (/\ UNCHANGED <<max_seq_length, max_batch_size, kv_cache>>
           /\ ~(max_seq_length' >= last'.s /\ max_batch_size' >= last'.b))]_vars
====
